---- MODULE Spec2Model ----
(***************************************************************************)
(* A model of src/src/extract_data.py: the CTA train-position poller.      *)
(*                                                                         *)
(*  - the route geometry index built at import time (route_geometries),    *)
(*  - filter_and_snap, the nearest-point correction of a raw coordinate,   *)
(*  - fetch_route_positions, the defensive parse of one feed response,     *)
(*  - ensure_db / insert_snapshot, the SQLite store with its unique index, *)
(*  - main, the polling loop with its try/except/finally.                  *)
(*                                                                         *)
(* Coordinates are integers in units of 0.0001 degree, so                   *)
(* that the 0.0003 degree buffer of filter_and_snap is 3 units.  The route *)
(* geometries of the model are made of axis-parallel segments with integer *)
(* vertices: on those, distance comparison, projection and interpolation   *)
(* are exact in integer arithmetic (floating-point rounding of shapely is  *)
(* not modelled).  Time is counted in ticks of 0.2 s, the pacing sleep.    *)
(***************************************************************************)
EXTENDS Integers, Sequences, FiniteSets, TLC

VARIABLES
    pc,         \* position of the process in the module body and in main()
    api_key,    \* environment: TRUE when CTA_TRAIN_API_KEY is set
    dataset,    \* environment: state of cta_routes.geojson
    conn,       \* the sqlite3 connection of main()
    tables,     \* the database: table name -> rows in id order
    now,        \* wall clock, in ticks of 0.2 s
    ts_iso,     \* main(): the timestamp captured for the current cycle
    rt_idx,     \* main(): index of the route the for loop is at
    rows,       \* main(): the rows fetched for the current route
    total,      \* main(): rows counted in the current cycle
    trace,      \* the calls main() made in the current cycle, in order
    exc,        \* the exception that is propagating, or "none"
    exit_code,  \* exit status of the process, "running" while it runs
    cycles,     \* number of cycles started
    snapCall,   \* one call of filter_and_snap: arguments and result
    fetchCall   \* one call of fetch_route_positions: arguments and result

vars == <<pc, api_key, dataset, conn, tables, now, ts_iso, rt_idx, rows, total,
          trace, exc, exit_code, cycles, snapCall, fetchCall>>

pollerVars == <<pc, api_key, dataset, conn, now, ts_iso, rt_idx, rows, total,
                trace, exc, exit_code, cycles>>

-----------------------------------------------------------------------------
(* Bounds of the model *)

NumRoutes == 2      \* how many of the configured routes are polled
MaxCycles == 2      \* polling cycles started before the loop is cut off
MaxEntries == 2     \* train entries in one feed response
MaxRows == 3        \* rows stored by direct insert_snapshot calls
GridMax == 7        \* raw coordinates range over 0..GridMax

-----------------------------------------------------------------------------
(* Configuration: lines 18-53 *)

POLL_SECONDS == 30
TicksPerSecond == 5
buffer_distance == 3

AllRoutes == <<"Red", "Blue", "Brn", "G", "Org", "P", "Pink", "Y">>

ROUTES ==
    [rt \in {AllRoutes[i] : i \in 1..Len(AllRoutes)} |->
        CASE rt = "Red" -> "red"   [] rt = "Blue" -> "blue"
          [] rt = "Brn" -> "brn"   [] rt = "G" -> "g"
          [] rt = "Org" -> "org"   [] rt = "P" -> "p"
          [] rt = "Pink" -> "pink" [] rt = "Y" -> "y"]

\* the routes the model polls: the first NumRoutes in configured order
RouteOrder == SubSeq(AllRoutes, 1, IF NumRoutes < Len(AllRoutes) THEN NumRoutes ELSE Len(AllRoutes))

NAME_MAP ==
    [n \in {"Red", "Blue", "Brown", "Green", "Orange", "Purple", "Pink", "Yellow"} |->
        CASE n = "Red" -> "red"     [] n = "Blue" -> "blue"
          [] n = "Brown" -> "brn"   [] n = "Green" -> "g"
          [] n = "Orange" -> "org"  [] n = "Purple" -> "p"
          [] n = "Pink" -> "pink"   [] n = "Yellow" -> "y"]

ShortNames == {NAME_MAP[n] : n \in DOMAIN NAME_MAP}

\* str.lower() on a route code
Lower(route_code) ==
    IF route_code \in DOMAIN ROUTES THEN ROUTES[route_code] ELSE route_code

\* values of nullable fields
NULL == "NULL"              \* Python None / SQL NULL in a text column
None == <<>>                \* Python None in a numeric field
Some(v) == <<v>>            \* a numeric field holding v

-----------------------------------------------------------------------------
(* Geometry: shapely on axis-parallel line strings.  A point is <<x, y>> =  *)
(* <<lon, lat>>; a line string is a sequence of at least two vertices.     *)

Abs(n) == IF n < 0 THEN -n ELSE n
Min2(a, b) == IF a <= b THEN a ELSE b
Max2(a, b) == IF a >= b THEN a ELSE b
Clamp(v, lo, hi) == Max2(lo, Min2(v, hi))

\* the point of segment a-b nearest to p
SegNearest(p, a, b) ==
    IF a[2] = b[2]
    THEN <<Clamp(p[1], Min2(a[1], b[1]), Max2(a[1], b[1])), a[2]>>
    ELSE <<a[1], Clamp(p[2], Min2(a[2], b[2]), Max2(a[2], b[2]))>>

Dist2(p, q) == (p[1] - q[1]) * (p[1] - q[1]) + (p[2] - q[2]) * (p[2] - q[2])

SegDist2(p, a, b) == Dist2(p, SegNearest(p, a, b))

SegLen(a, b) == Abs(a[1] - b[1]) + Abs(a[2] - b[2])

RECURSIVE MinOver(_, _, _)
\* the least f[i] for i in lo..hi (lo <= hi)
MinOver(f, lo, hi) ==
    IF lo = hi THEN f[lo] ELSE Min2(f[lo], MinOver(f, lo + 1, hi))

\* Point.distance(LineString), squared
LineDist2(p, line) ==
    MinOver([i \in 1..(Len(line) - 1) |-> SegDist2(p, line[i], line[i + 1])],
            1, Len(line) - 1)

\* the first segment of the line at the least distance from p
NearestSeg(p, line) ==
    CHOOSE k \in 1..(Len(line) - 1) :
        /\ SegDist2(p, line[k], line[k + 1]) = LineDist2(p, line)
        /\ \A j \in 1..(k - 1) : SegDist2(p, line[j], line[j + 1]) > LineDist2(p, line)

RECURSIVE LengthBefore(_, _)
\* length of the line up to vertex k
LengthBefore(line, k) ==
    IF k = 1 THEN 0 ELSE LengthBefore(line, k - 1) + SegLen(line[k - 1], line[k])

\* LineString.project(point): distance along the line of the nearest point
LineProject(line, p) ==
    LET k == NearestSeg(p, line)
    IN  LengthBefore(line, k) + SegLen(line[k], SegNearest(p, line[k], line[k + 1]))

\* the point at distance d from a towards b on segment a-b
SegAt(a, b, d) ==
    LET e == Min2(d, SegLen(a, b))
    IN  IF a[2] = b[2]
        THEN <<IF b[1] >= a[1] THEN a[1] + e ELSE a[1] - e, a[2]>>
        ELSE <<a[1], IF b[2] >= a[2] THEN a[2] + e ELSE a[2] - e>>

RECURSIVE InterpolateFrom(_, _, _)
InterpolateFrom(line, i, d) ==
    IF i = Len(line) - 1 \/ d <= SegLen(line[i], line[i + 1])
    THEN SegAt(line[i], line[i + 1], d)
    ELSE InterpolateFrom(line, i + 1, d - SegLen(line[i], line[i + 1]))

\* LineString.interpolate(distance)
LineInterpolate(line, d) == InterpolateFrom(line, 1, IF d < 0 THEN 0 ELSE d)

-----------------------------------------------------------------------------
(* The geometry index: lines 36-70 *)

NoGeometry == [geom_type |-> "None", geoms |-> <<>>]
LineString(coords) == [geom_type |-> "LineString", geoms |-> <<coords>>]

\* geometry.union(other) for line work that does not overlap: the
\* components of both, as one MultiLineString
Union(g, h) == [geom_type |-> "MultiLineString", geoms |-> g.geoms \o h.geoms]

\* the features of the boundary dataset of the model: "lines" already
\* split at commas and stripped, "geometry" already through shape()
GeoFeatures ==
    << [lines |-> <<"Red", "Purple">>,
        geometry |-> LineString(<< <<0, 0>>, <<4, 0>>, <<4, 2>> >>)],
       [lines |-> <<"Blue">>,
        geometry |-> LineString(<< <<0, 8>>, <<2, 8>> >>)],
       [lines |-> <<"Blue", "Silver">>,
        geometry |-> LineString(<< <<8, 0>>, <<8, 3>> >>)],
       [lines |-> <<>>,
        geometry |-> LineString(<< <<5, 5>>, <<6, 5>> >>)] >>

RECURSIVE AddNames(_, _, _, _)
\* lines 63-70: the inner loop over the route names of one feature
AddNames(index, names, k, geom) ==
    IF k > Len(names) THEN index
    ELSE LET route_name == names[k]
         IN  IF route_name \in DOMAIN NAME_MAP
             THEN LET short_name == NAME_MAP[route_name]
                      merged == IF index[short_name] = NoGeometry
                                THEN geom
                                ELSE Union(index[short_name], geom)
                  IN  AddNames([index EXCEPT ![short_name] = merged], names, k + 1, geom)
             ELSE AddNames(index, names, k + 1, geom)

RECURSIVE BuildIndex(_, _)
\* lines 58-62: the loop over the features
BuildIndex(index, k) ==
    IF k > Len(GeoFeatures) THEN index
    ELSE LET feature == GeoFeatures[k]
         IN  IF feature.lines # <<>> /\ feature.geometry.geoms # <<>>
             THEN BuildIndex(AddNames(index, feature.lines, 1, feature.geometry), k + 1)
             ELSE BuildIndex(index, k + 1)

route_geometries == BuildIndex([short \in ShortNames |-> NoGeometry], 1)

\* route_geometries.get(key)
GeometryOf(key) ==
    IF key \in DOMAIN route_geometries THEN route_geometries[key] ELSE NoGeometry

-----------------------------------------------------------------------------
(* filter_and_snap: lines 108-133 *)

\* the last component instead of the nearest one
Mutant_ClosestGeom(geoms, point) == geoms.geoms[Len(geoms.geoms)]

\* lines 119-127: the component the projection is made on; in a
\* MultiLineString the first component at the least distance
ClosestGeom(geoms, point) ==
    IF geoms.geom_type = "MultiLineString"
    THEN LET d == [i \in 1..Len(geoms.geoms) |-> LineDist2(point, geoms.geoms[i])]
             k == CHOOSE i \in 1..Len(geoms.geoms) :
                     /\ d[i] = MinOver(d, 1, Len(geoms.geoms))
                     /\ \A j \in 1..(i - 1) : d[j] > d[i]
         IN  geoms.geoms[k]
    ELSE geoms.geoms[1]

\* returns <<lat, lon>>
filter_and_snap(route_code, lat, lon) ==
    LET geoms == GeometryOf(Lower(route_code))
    IN  IF geoms.geoms = <<>>
        THEN <<lat, lon>>
        ELSE LET point == <<lon, lat>>
                 closest_geom == ClosestGeom(geoms, point)
                 min_distance2 == LineDist2(point, closest_geom)
             IN  IF min_distance2 <= buffer_distance * buffer_distance
                 THEN <<lat, lon>>
                 ELSE LET nearest_point ==
                              LineInterpolate(closest_geom, LineProject(closest_geom, point))
                      IN  <<nearest_point[2], nearest_point[1]>>

-----------------------------------------------------------------------------
(* The store: SCHEMA_SQL, ensure_db and insert_snapshot, lines 77-96 and   *)
(* 184-206.  A table is the sequence of its rows in id order.              *)

\* a database file without tables
NoTables == [t \in {} |-> <<>>]

RouteTables == {ROUTES[rt] : rt \in DOMAIN ROUTES}

\* CREATE TABLE IF NOT EXISTS, for every route
ensure_db(db) ==
    [t \in (DOMAIN db) \cup RouteTables |-> IF t \in DOMAIN db THEN db[t] ELSE <<>>]

\* the unique index on (ts_utc, rn): a row conflicts with a stored row of
\* the same ts_utc and rn; SQLite holds NULLs to be distinct from each
\* other, so a row whose rn is NULL conflicts with nothing
Conflicts(tbl, ts, rn) ==
    /\ rn # NULL
    /\ \E i \in 1..Len(tbl) : tbl[i].ts_utc = ts /\ tbl[i].rn = rn

\* INSERT OR IGNORE of one row
InsertOrIgnore(tbl, ts, r) ==
    IF Conflicts(tbl, ts, r.rn) THEN tbl
    ELSE Append(tbl, [id |-> Len(tbl) + 1, ts_utc |-> ts, rn |-> r.rn,
                      next_station |-> r.next_station, lat |-> r.lat, lon |-> r.lon,
                      heading |-> r.heading, arriving_now |-> r.arriving_now,
                      delayed |-> r.delayed])

RECURSIVE ExecuteMany(_, _, _, _)
\* conn.executemany(sql, vals), from row k on
ExecuteMany(tbl, ts, recs, k) ==
    IF k > Len(recs) THEN tbl
    ELSE ExecuteMany(InsertOrIgnore(tbl, ts, recs[k]), ts, recs, k + 1)

\* the database after insert_snapshot(conn, table, ts_iso, rows)
insert_snapshot(db, table, ts, recs) ==
    IF recs = <<>> THEN db
    ELSE [db EXCEPT ![table] = ExecuteMany(db[table], ts, recs, 1)]

-----------------------------------------------------------------------------
(* The idle values of the variables a specification does not use *)

NoSnapCall == [route_code |-> "Red", lat |-> 0, lon |-> 0, done |-> FALSE, result |-> <<0, 0>>]
NoFetchCall == [route_code |-> "Red", done |-> FALSE]

\* the poller before the process is started
PollerIdle ==
    /\ pc = "idle" /\ api_key = TRUE /\ dataset = "ok" /\ conn = "unopened"
    /\ now = 0 /\ ts_iso = 0 /\ rt_idx = 1 /\ rows = <<>> /\ total = 0
    /\ trace = <<>> /\ exc = "none" /\ exit_code = "running" /\ cycles = 0

-----------------------------------------------------------------------------
(* fetch_route_positions: lines 136-181 *)

MISSING == "<missing>"      \* dict.get() of a key that is absent or null

\* truth value of a string field: None and "" are false
StrTruthy(s) == s # MISSING /\ s # ""

\* truth value of a float: None and 0.0 are false
NumTruthy(x) == x # None /\ x[1] # 0

\* the decimal strings float() and int() accept, with their values
DecimalValue ==
    ("0" :> 0) @@ ("1" :> 1) @@ ("2" :> 2) @@ ("3" :> 3) @@ ("4" :> 4) @@
    ("5" :> 5) @@ ("6" :> 6) @@ ("7" :> 7) @@ ("8" :> 8) @@ ("9" :> 9) @@
    ("90" :> 90) @@ ("180" :> 180) @@ ("270" :> 270)

\* float(s) / int(s) raise ValueError on anything else
Parses(s) == s \in DOMAIN DecimalValue

\* `float(t["k"]) if t.get("k") else None`, where it does not raise
Numeric(s) == IF StrTruthy(s) THEN Some(DecimalValue[s]) ELSE None

\* t.get("k") of a text field: None when absent
Field(s) == IF s = MISSING THEN NULL ELSE s

\* lines 158-180: the body of the try for one train entry; <<>> when the
\* except clause is taken, <<record>> when the record is appended
ParseEntry(route_code, t) ==
    IF \/ (StrTruthy(t.lat) /\ ~Parses(t.lat))
       \/ (StrTruthy(t.lon) /\ ~Parses(t.lon))
       \/ (StrTruthy(t.heading) /\ ~Parses(t.heading))
    THEN <<>>
    ELSE LET lat == Numeric(t.lat)
             lon == Numeric(t.lon)
             snapped == IF NumTruthy(lat) /\ NumTruthy(lon)
                        THEN LET r == filter_and_snap(route_code, lat[1], lon[1])
                             IN  <<Some(r[1]), Some(r[2])>>
                        ELSE <<lat, lon>>
         IN  << [rn |-> Field(t.rn),
                 next_station |-> Field(t.nextStaNm),
                 lat |-> snapped[1],
                 lon |-> snapped[2],
                 heading |-> Numeric(t.heading),
                 arriving_now |-> IF t.isApp = "1" THEN 1 ELSE 0,
                 delayed |-> IF t.isDly = "1" THEN 1 ELSE 0] >>

RECURSIVE Mutant_ParseTrains(_, _, _)
\* the first failing entry ends the loop
Mutant_ParseTrains(route_code, trains, k) ==
    IF k > Len(trains) \/ ParseEntry(route_code, trains[k]) = <<>> THEN <<>>
    ELSE ParseEntry(route_code, trains[k]) \o Mutant_ParseTrains(route_code, trains, k + 1)

RECURSIVE ParseTrains(_, _, _)
\* line 157: the loop over the trains of one block, from entry k on
ParseTrains(route_code, trains, k) ==
    IF k > Len(trains) THEN <<>>
    ELSE ParseEntry(route_code, trains[k]) \o ParseTrains(route_code, trains, k + 1)

RECURSIVE ParseBlocks(_, _, _)
\* line 156: the loop over ctatt["route"], from block k on
ParseBlocks(route_code, route, k) ==
    IF k > Len(route) THEN <<>>
    ELSE ParseTrains(route_code, route[k], 1) \o ParseBlocks(route_code, route, k + 1)

\* an errCd of the status block: absent, null, a string or a number
ErrCd(t, v) == [type |-> t, value |-> v]

\* the code compared as text, str(errCd) == "0": a numeric 0 passes
Mutant_StatusReportsError(errCd) ==
    ~(errCd.type \in {"absent", "null"} \/ errCd.value = "0")

\* line 150: ctatt.get("errCd") not in (None, "0")
StatusReportsError(errCd) ==
    ~(errCd.type \in {"absent", "null"} \/ (errCd.type = "string" /\ errCd.value = "0"))

\* the outcome of one call: what it raised, and the list it returned
fetch_route_positions(route_code, resp) ==
    IF resp.status # "ok"
    THEN [raised |-> "RequestException", out |-> <<>>]
    ELSE IF resp.content_type # "json"
    THEN [raised |-> "none", out |-> <<>>]
    ELSE IF StatusReportsError(resp.errCd)
    THEN [raised |-> "none", out |-> <<>>]
    ELSE [raised |-> "none", out |-> ParseBlocks(route_code, resp.route, 1)]

-----------------------------------------------------------------------------
(* Specification SpecSnap: filter_and_snap applied to every route code and *)
(* every raw coordinate of the grid.                                       *)

SnapRoutes == {AllRoutes[i] : i \in 1..Len(AllRoutes)} \cup ShortNames

InitSnap ==
    /\ PollerIdle
    /\ tables = NoTables
    /\ fetchCall = NoFetchCall
    /\ \E rc \in SnapRoutes, lat \in 0..GridMax, lon \in 0..GridMax :
          snapCall = [route_code |-> rc, lat |-> lat, lon |-> lon,
                      done |-> FALSE, result |-> <<0, 0>>]

CallSnap ==
    /\ ~snapCall.done
    /\ snapCall' = [snapCall EXCEPT
                      !.done = TRUE,
                      !.result = filter_and_snap(snapCall.route_code, snapCall.lat, snapCall.lon)]
    /\ UNCHANGED <<pollerVars, tables, fetchCall>>

NextSnap == CallSnap

SpecSnap == InitSnap /\ [][NextSnap]_vars

\* distance (squared) from a point to a route's whole geometry
GeomDist2(geoms, point) ==
    MinOver([i \in 1..Len(geoms.geoms) |-> LineDist2(point, geoms.geoms[i])],
            1, Len(geoms.geoms))

\* C4: filter_and_snap returns the input unchanged when the route has no
\* geometry or the input is within the buffer of the geometry, and
\* otherwise a point that lies on a component of the geometry that is at
\* the least distance from the input.
C4_SnapContract ==
    snapCall.done =>
        LET geoms == GeometryOf(Lower(snapCall.route_code))
            input == <<snapCall.lat, snapCall.lon>>
            point == <<snapCall.lon, snapCall.lat>>
            res == <<snapCall.result[2], snapCall.result[1]>>
        IN  IF geoms = NoGeometry
            THEN snapCall.result = input
            ELSE IF GeomDist2(geoms, point) <= buffer_distance * buffer_distance
            THEN snapCall.result = input
            ELSE \E i \in 1..Len(geoms.geoms) :
                    /\ LineDist2(point, geoms.geoms[i]) = GeomDist2(geoms, point)
                    /\ LineDist2(res, geoms.geoms[i]) = 0

\* a point outside the buffer of a multi-component geometry was moved
C4_Witness ==
    /\ snapCall.done
    /\ GeometryOf(Lower(snapCall.route_code)).geom_type = "MultiLineString"
    /\ snapCall.result # <<snapCall.lat, snapCall.lon>>
    /\ snapCall.lat # snapCall.lon


-----------------------------------------------------------------------------
(* Specification SpecFetch: fetch_route_positions applied to every         *)
(* response of a bounded family.                                           *)

BoundedSeq(S, n) == UNION {[1..k -> S] : k \in 0..n}

\* train entries as the feed sends them: every field a string, or absent
FeedEntries ==
    [rn : {"101"}, nextStaNm : {"Howard"},
     lat : {MISSING, "abc", "0", "7"},
     lon : {MISSING, "abc", "1"},
     heading : {MISSING, "x", "90"},
     isApp : {"1"}, isDly : {"0"}]

ErrCds ==
    {ErrCd("absent", ""), ErrCd("null", ""), ErrCd("string", "0"),
     ErrCd("number", "0"), ErrCd("string", "500")}

\* a request that failed (connection error, timeout, non-2xx status)
FailedResponse ==
    [status |-> "failed", content_type |-> "", errCd |-> ErrCd("absent", ""), route |-> <<>>]

\* a 2xx response that does not declare JSON
HtmlResponse ==
    [status |-> "ok", content_type |-> "html", errCd |-> ErrCd("absent", ""), route |-> <<>>]

\* a 2xx JSON response: a status block and one route block of trains
JsonResponse(errCd, trains) ==
    [status |-> "ok", content_type |-> "json", errCd |-> errCd, route |-> <<trains>>]

Responses ==
    {FailedResponse, HtmlResponse}
    \cup {JsonResponse(e, tr) : e \in ErrCds, tr \in BoundedSeq(FeedEntries, MaxEntries)}

FetchRoutes == {"Blue", "Brn"}

InitFetch ==
    /\ PollerIdle
    /\ tables = NoTables
    /\ snapCall = NoSnapCall
    /\ \E rc \in FetchRoutes, resp \in Responses :
          fetchCall = [route_code |-> rc, resp |-> resp, done |-> FALSE,
                       raised |-> "none", out |-> <<>>]

CallFetch ==
    /\ ~fetchCall.done
    /\ LET r == fetch_route_positions(fetchCall.route_code, fetchCall.resp)
       IN  fetchCall' = [fetchCall EXCEPT !.done = TRUE, !.raised = r.raised, !.out = r.out]
    /\ UNCHANGED <<pollerVars, tables, snapCall>>

NextFetch == CallFetch

SpecFetch == InitFetch /\ [][NextFetch]_vars

\* the call returned after the status block let it through to the entries
ReachedEntries ==
    /\ fetchCall.done
    /\ fetchCall.resp.status = "ok"
    /\ fetchCall.resp.content_type = "json"
    /\ fetchCall.resp.errCd \in {ErrCd("absent", ""), ErrCd("null", ""), ErrCd("string", "0")}

\* all train entries of the response, in feed order
FeedTrains == IF fetchCall.resp.route = <<>> THEN <<>> ELSE fetchCall.resp.route[1]

\* the numeric fields of an entry all convert
EntryConverts(t) ==
    \A s \in {t.lat, t.lon, t.heading} : s = MISSING \/ Parses(s)

\* C5: an entry whose latitude, longitude or heading fails to parse is
\* dropped; fetch does not raise, and its result is the other entries of
\* the response, one record each, in feed order.
C5_BadEntryIsolated ==
    ReachedEntries =>
        LET kept == SelectSeq(FeedTrains, EntryConverts)
            out == fetchCall.out
        IN  /\ fetchCall.raised = "none"
            /\ Len(out) = Len(kept)
            /\ \A i \in 1..Len(out) :
                  /\ out[i].rn = kept[i].rn
                  /\ out[i].heading = (IF kept[i].heading = MISSING THEN None
                                       ELSE Some(DecimalValue[kept[i].heading]))
                  /\ (out[i].lat = None) <=> (kept[i].lat = MISSING)
                  /\ (out[i].lon = None) <=> (kept[i].lon = MISSING)

\* a bad entry came first and a good one after it was still returned
C5_Witness ==
    /\ ReachedEntries
    /\ Len(FeedTrains) = 2
    /\ ~EntryConverts(FeedTrains[1])
    /\ EntryConverts(FeedTrains[2])
    /\ Len(fetchCall.out) = 1

\* C6: a record whose entry has both latitude and longitude carries the
\* result of filter_and_snap on the parsed raw coordinates; a record whose
\* entry lacks either one was not snapped, and carries null for what is
\* missing.
C6_SnapInvokedWhenPresent ==
    ReachedEntries =>
        LET kept == SelectSeq(FeedTrains, EntryConverts)
            out == fetchCall.out
        IN  \A i \in 1..Len(out) :
               IF kept[i].lat # MISSING /\ kept[i].lon # MISSING
               THEN LET r == filter_and_snap(fetchCall.route_code,
                                             DecimalValue[kept[i].lat],
                                             DecimalValue[kept[i].lon])
                    IN  out[i].lat = Some(r[1]) /\ out[i].lon = Some(r[2])
               ELSE /\ out[i].lat = Numeric(kept[i].lat)
                    /\ out[i].lon = Numeric(kept[i].lon)
                    /\ out[i].lat = None \/ out[i].lon = None

\* the status block carries an error code in the words of the claim:
\* neither absent, nor null, nor zero
NonZeroErrCd(errCd) == errCd.type \in {"string", "number"} /\ errCd.value # "0"

\* C7 as claimed: fetch returns an empty list without raising when the
\* error code is non-null and non-zero, and parses the entries when the
\* error code is absent, null or zero.
C7_ErrCdZeroParses ==
    (fetchCall.done /\ fetchCall.resp.status = "ok" /\ fetchCall.resp.content_type = "json") =>
        /\ fetchCall.raised = "none"
        /\ IF NonZeroErrCd(fetchCall.resp.errCd)
           THEN fetchCall.out = <<>>
           ELSE Len(fetchCall.out) = Len(SelectSeq(FeedTrains, EntryConverts))

\* C7 as amended: fetch returns an empty list without raising when the
\* error code is anything but absent, null or the string "0" (a numeric 0
\* included), and parses the entries when it is absent, null or "0".
C7_ErrCdTextZeroParses ==
    (fetchCall.done /\ fetchCall.resp.status = "ok" /\ fetchCall.resp.content_type = "json") =>
        /\ fetchCall.raised = "none"
        /\ IF fetchCall.resp.errCd \in {ErrCd("absent", ""), ErrCd("null", ""), ErrCd("string", "0")}
           THEN Len(fetchCall.out) = Len(SelectSeq(FeedTrains, EntryConverts))
           ELSE fetchCall.out = <<>>

\* an error code came with trains that convert, and nothing was returned
C7_Witness ==
    /\ fetchCall.done
    /\ fetchCall.resp.content_type = "json"
    /\ fetchCall.resp.errCd = ErrCd("string", "500")
    /\ SelectSeq(FeedTrains, EntryConverts) # <<>>
    /\ fetchCall.out = <<>>
    /\ fetchCall.raised = "none"


-----------------------------------------------------------------------------
(* Specification SpecStore: insert_snapshot called directly, any number of *)
(* times, with any timestamp and any batch, on a database that ensure_db   *)
(* has prepared.                                                           *)

StoreTables == {"red", "blue"}
StoreTimes == {0, 1}

\* records as fetch_route_positions returns them; the run number may be None
StoreRecords ==
    [rn : {NULL, "101", "102"}, next_station : {"Howard"}, lat : {Some(7)},
     lon : {Some(1)}, heading : {None}, arriving_now : {0}, delayed : {0}]

RECURSIVE SumLen(_, _)
SumLen(db, names) ==
    IF names = {} THEN 0
    ELSE LET t == CHOOSE x \in names : TRUE
         IN  Len(db[t]) + SumLen(db, names \ {t})

InitStore ==
    /\ PollerIdle
    /\ tables = ensure_db(NoTables)
    /\ snapCall = NoSnapCall
    /\ fetchCall = NoFetchCall

CallInsert ==
    /\ \E table \in StoreTables, ts \in StoreTimes,
          recs \in BoundedSeq(StoreRecords, MaxEntries) :
          /\ SumLen(tables, StoreTables) + Len(recs) <= MaxRows
          /\ tables' = insert_snapshot(tables, table, ts, recs)
    /\ UNCHANGED <<pollerVars, snapCall, fetchCall>>

NextStore == CallInsert

SpecStore == InitStore /\ [][NextStore]_vars

\* C1: no two stored rows of one table share (timestamp, run id), a null
\* run id included.
C1_UniqueTsRn ==
    \A t \in DOMAIN tables :
        \A i, j \in 1..Len(tables[t]) :
            (tables[t][i].ts_utc = tables[t][j].ts_utc /\ tables[t][i].rn = tables[t][j].rn)
                => i = j


-----------------------------------------------------------------------------
(* Specification Spec: the process, from the first line of the module body *)
(* to its exit.  Lines 14-41 run at import time, then main(), lines        *)
(* 208-232.                                                                *)

\* datetime.now(timezone.utc).isoformat(timespec="seconds"): whole seconds
IsoSeconds(ticks) == ticks \div TicksPerSecond

\* one call made by main(): what, for which route, with which timestamp,
\* and how many rows it carried
Event(ev, rt, ts, n) == [ev |-> ev, rt |-> rt, ts |-> ts, n |-> n]

\* the responses the feed gives the poller: a failed request, a page that
\* is not JSON, a reported error, and one train
PollTrain ==
    [rn |-> "101", nextStaNm |-> "Howard", lat |-> "7", lon |-> "1",
     heading |-> "90", isApp |-> "1", isDly |-> "0"]

PollResponses ==
    {FailedResponse, HtmlResponse,
     JsonResponse(ErrCd("string", "500"), <<PollTrain>>),
     JsonResponse(ErrCd("string", "0"), <<PollTrain>>)}

Init ==
    /\ pc = "load_config"
    /\ api_key \in BOOLEAN
    /\ dataset \in {"ok", "missing", "corrupt"}
    /\ conn = "unopened"
    /\ tables = NoTables
    /\ now \in 0..(TicksPerSecond - 1)
    /\ ts_iso = 0
    /\ rt_idx = 1
    /\ rows = <<>>
    /\ total = 0
    /\ trace = <<>>
    /\ exc = "none"
    /\ exit_code = "running"
    /\ cycles = 0
    /\ snapCall = NoSnapCall
    /\ fetchCall = NoFetchCall

\* lines 14-16 without the check: a missing key goes unnoticed
Mutant_LoadConfig ==
    /\ pc = "load_config"
    /\ pc' = "check_geojson"
    /\ UNCHANGED <<api_key, dataset, conn, tables, now, ts_iso, rt_idx, rows, total,
                   trace, exc, exit_code, cycles, snapCall, fetchCall>>

\* lines 14-16: SystemExit when CTA_TRAIN_API_KEY is not set
LoadConfig ==
    /\ pc = "load_config"
    /\ IF api_key
       THEN pc' = "check_geojson" /\ UNCHANGED <<exc, exit_code>>
       ELSE pc' = "FatalStartup" /\ exc' = "SystemExit" /\ exit_code' = "1"
    /\ UNCHANGED <<api_key, dataset, conn, tables, now, ts_iso, rt_idx, rows, total,
                   trace, cycles, snapCall, fetchCall>>

\* lines 36-38: SystemExit when the GeoJSON file does not exist
CheckGeoJson ==
    /\ pc = "check_geojson"
    /\ IF dataset = "missing"
       THEN pc' = "FatalStartup" /\ exc' = "SystemExit" /\ exit_code' = "1"
       ELSE pc' = "load_geojson" /\ UNCHANGED <<exc, exit_code>>
    /\ UNCHANGED <<api_key, dataset, conn, tables, now, ts_iso, rt_idx, rows, total,
                   trace, cycles, snapCall, fetchCall>>

\* lines 40-74: json.load raises on a file that does not parse, and the
\* exception ends the process; otherwise the index is built
LoadGeoJson ==
    /\ pc = "load_geojson"
    /\ IF dataset = "corrupt"
       THEN pc' = "FatalStartup" /\ exc' = "JSONDecodeError" /\ exit_code' = "1"
       ELSE pc' = "connect" /\ UNCHANGED <<exc, exit_code>>
    /\ UNCHANGED <<api_key, dataset, conn, tables, now, ts_iso, rt_idx, rows, total,
                   trace, cycles, snapCall, fetchCall>>

\* line 211: sqlite3.connect(DB_PATH)
Connect ==
    /\ pc = "connect"
    /\ conn' = "open"
    /\ pc' = "ensure_db"
    /\ UNCHANGED <<api_key, dataset, tables, now, ts_iso, rt_idx, rows, total,
                   trace, exc, exit_code, cycles, snapCall, fetchCall>>

\* line 212: ensure_db(conn), before the try statement is entered; an
\* sqlite3 error here leaves main() without passing through finally
EnsureDb ==
    /\ pc = "ensure_db"
    /\ \/ /\ tables' = ensure_db(tables)
          /\ pc' = "cycle"
          /\ UNCHANGED <<exc, exit_code>>
       \/ /\ exc' = "sqlite3.Error"
          /\ exit_code' = "1"
          /\ pc' = "Exited"
          /\ UNCHANGED tables
    /\ UNCHANGED <<api_key, dataset, conn, now, ts_iso, rt_idx, rows, total,
                   trace, cycles, snapCall, fetchCall>>

\* lines 215-217: the head of a cycle
CaptureTimestamp ==
    /\ pc = "cycle"
    /\ cycles < MaxCycles
    /\ cycles' = cycles + 1
    /\ ts_iso' = IsoSeconds(now)
    /\ total' = 0
    /\ rt_idx' = 1
    /\ trace' = <<Event("now", 0, IsoSeconds(now), 0)>>
    /\ pc' = "fetch"
    /\ UNCHANGED <<api_key, dataset, conn, tables, now, rows, exc, exit_code,
                   snapCall, fetchCall>>

\* the for loop goes to its next route, or line 227 is reached
NextRoute ==
    IF rt_idx < Len(RouteOrder)
    THEN rt_idx' = rt_idx + 1 /\ pc' = "fetch"
    ELSE rt_idx' = rt_idx /\ pc' = "cycle_done"

\* lines 220, 225-226: the fetch of one route; a RequestException is
\* printed and the loop goes on with the next route
FetchRoute ==
    /\ pc = "fetch"
    /\ \E resp \in PollResponses :
          LET r == fetch_route_positions(RouteOrder[rt_idx], resp)
          IN  IF r.raised = "RequestException"
              THEN /\ trace' = trace \o <<Event("fetch", rt_idx, ts_iso, 0),
                                          Event("failed", rt_idx, ts_iso, 0)>>
                   /\ NextRoute
                   /\ UNCHANGED rows
              ELSE /\ trace' = Append(trace, Event("fetch", rt_idx, ts_iso, Len(r.out)))
                   /\ rows' = r.out
                   /\ pc' = "insert"
                   /\ UNCHANGED rt_idx
    /\ UNCHANGED <<api_key, dataset, conn, tables, now, ts_iso, total, exc, exit_code,
                   cycles, snapCall, fetchCall>>

\* the clock read again at the insert
Mutant_InsertTs == IsoSeconds(now)

\* line 221: the timestamp handed to insert_snapshot
InsertTs == ts_iso

\* lines 221-223: the rows are stored and counted; an sqlite3 error (a
\* locked database, a full disk) is no RequestException and leaves the loop
InsertRoute ==
    /\ pc = "insert"
    /\ \/ /\ tables' = insert_snapshot(tables, ROUTES[RouteOrder[rt_idx]], InsertTs, rows)
          /\ total' = total + Len(rows)
          /\ trace' = Append(trace, Event("insert", rt_idx, InsertTs, Len(rows)))
          /\ pc' = "pace"
          /\ UNCHANGED exc
       \/ /\ rows # <<>>
          /\ exc' = "sqlite3.Error"
          /\ pc' = "finally"
          /\ UNCHANGED <<tables, total, trace>>
    /\ UNCHANGED <<api_key, dataset, conn, now, ts_iso, rt_idx, rows, exit_code,
                   cycles, snapCall, fetchCall>>

\* line 224: time.sleep(0.2), one tick
Pace ==
    /\ pc = "pace"
    /\ now' = now + 1
    /\ trace' = Append(trace, Event("sleep", rt_idx, ts_iso, 0))
    /\ NextRoute
    /\ UNCHANGED <<api_key, dataset, conn, tables, ts_iso, rows, total, exc, exit_code,
                   cycles, snapCall, fetchCall>>

\* lines 227-228: time.sleep(POLL_SECONDS)
CycleSleep ==
    /\ pc = "cycle_done"
    /\ now' = now + POLL_SECONDS * TicksPerSecond
    /\ pc' = "cycle"
    /\ UNCHANGED <<api_key, dataset, conn, tables, ts_iso, rt_idx, rows, total, trace,
                   exc, exit_code, cycles, snapCall, fetchCall>>

InTry == {"cycle", "fetch", "insert", "pace", "cycle_done"}

\* Ctrl+C while the try statement of main() is running: line 229
Interrupt ==
    /\ pc \in InTry
    /\ exc' = "KeyboardInterrupt"
    /\ pc' = "finally"
    /\ UNCHANGED <<api_key, dataset, conn, tables, now, ts_iso, rt_idx, rows, total,
                   trace, exit_code, cycles, snapCall, fetchCall>>

\* Ctrl+C before the try statement is entered: nothing catches it
InterruptOutsideTry ==
    /\ pc \in {"load_config", "check_geojson", "load_geojson", "connect", "ensure_db"}
    /\ exc' = "KeyboardInterrupt"
    /\ exit_code' = "130"
    /\ pc' = "Exited"
    /\ UNCHANGED <<api_key, dataset, conn, tables, now, ts_iso, rt_idx, rows, total,
                   trace, cycles, snapCall, fetchCall>>

\* lines 229-232: the finally clause closes the connection; a caught
\* KeyboardInterrupt ends main() normally, any other exception goes on
Finally ==
    /\ pc = "finally"
    /\ conn' = "closed"
    /\ IF exc = "KeyboardInterrupt"
       THEN pc' = "Stopped" /\ exit_code' = "0"
       ELSE pc' = "Crashed" /\ exit_code' = "1"
    /\ UNCHANGED <<api_key, dataset, tables, now, ts_iso, rt_idx, rows, total,
                   trace, exc, cycles, snapCall, fetchCall>>

Next ==
    \/ LoadConfig
    \/ CheckGeoJson
    \/ LoadGeoJson
    \/ Connect
    \/ EnsureDb
    \/ CaptureTimestamp
    \/ FetchRoute
    \/ InsertRoute
    \/ Pace
    \/ CycleSleep
    \/ Interrupt
    \/ InterruptOutsideTry
    \/ Finally

Spec == Init /\ [][Next]_vars


\* the process has ended
Ended == pc \in {"FatalStartup", "Exited", "Stopped", "Crashed"}

\* the positions of the trace that hold an event of one kind
EventsOf(ev) == {k \in 1..Len(trace) : trace[k].ev = ev}

\* the rows of a route's table that carry a timestamp
RowsAt(rt, ts) ==
    LET tbl == tables[ROUTES[RouteOrder[rt]]]
    IN  {i \in 1..Len(tbl) : tbl[i].ts_utc = ts}

\* C2: a failure of one route's fetch or persist, of whatever kind, neither
\* ends the loop nor the cycle: no exception other than the interrupt
\* leaves the for loop, and at the end of a cycle every route has been
\* fetched and, unless its own fetch failed, persisted under the cycle's
\* timestamp.
C2_RouteFailureIsLocal ==
    /\ pc \in {"finally", "Crashed"} => exc = "KeyboardInterrupt"
    /\ pc = "cycle_done" =>
          \A rt \in 1..Len(RouteOrder) :
              /\ \E k \in EventsOf("fetch") : trace[k].rt = rt
              /\ \/ \E k \in EventsOf("failed") : trace[k].rt = rt
                 \/ \E k \in EventsOf("insert") : trace[k].rt = rt /\ trace[k].ts = trace[1].ts

\* C3: a cycle captures one timestamp, before its first fetch, and every
\* row persisted in the cycle, for every route, carries it.
C3_OneTimestampPerCycle ==
    trace # <<>> =>
        /\ trace[1].ev = "now"
        /\ EventsOf("now") = {1}
        /\ ts_iso = trace[1].ts
        /\ \A k \in EventsOf("insert") :
              /\ trace[k].ts = trace[1].ts
              /\ trace[k].n > 0 => RowsAt(trace[k].rt, trace[1].ts) # {}
        /\ \A t \in DOMAIN tables : \A i \in 1..Len(tables[t]) :
              tables[t][i].ts_utc <= trace[1].ts

\* the second cycle has stored a row for each of two routes, a second of
\* wall time after the cycle began
C3_Witness ==
    /\ pc = "cycle_done"
    /\ cycles = 2
    /\ IsoSeconds(now) > ts_iso
    /\ \E k, m \in EventsOf("insert") :
          /\ trace[k].rt # trace[m].rt
          /\ trace[k].n > 0 /\ trace[m].n > 0
          /\ RowsAt(trace[k].rt, ts_iso) # {}
          /\ RowsAt(trace[m].rt, ts_iso) # {}

\* C8: on every path of the claim by which the process ends with the
\* connection opened (an interrupt in a cycle or in the sleep, an error in
\* the schema creation or in a cycle) the connection has been closed, and
\* nothing runs after the close.
C8_ConnectionReleased ==
    /\ (pc \in {"Stopped", "Crashed"} \/ (pc = "Exited" /\ exc = "sqlite3.Error"))
          => conn = "closed"
    /\ conn = "closed" => Ended

\* the credential or the boundary dataset is not usable
StartupFails == ~api_key \/ dataset # "ok"

\* C9: with the credential missing, or the boundary dataset missing or
\* unparsable, the process never gets past the module body: it ends there
\* with a non-zero status, having opened no connection, fetched no route
\* and stored no row.
C9_FatalStartupBeforeLoop ==
    StartupFails =>
        /\ pc \in {"load_config", "check_geojson", "load_geojson", "FatalStartup", "Exited"}
        /\ conn = "unopened"
        /\ tables = NoTables
        /\ trace = <<>>
        /\ cycles = 0
        /\ Ended => exit_code \notin {"running", "0"}
        /\ pc = "FatalStartup" => exc \in {"SystemExit", "JSONDecodeError"}

\* the key is set and the dataset does not parse: the process has ended
C9_Witness ==
    /\ api_key
    /\ dataset = "corrupt"
    /\ pc = "FatalStartup"
    /\ exit_code = "1"

\* C10: the routes of a cycle are fetched one at a time in the configured
\* order, and a pacing sleep comes between the processing of any two
\* consecutive routes, whether the earlier one failed or not.
C10_PacedInOrder ==
    /\ \A k, m \in EventsOf("fetch") : k < m => trace[k].rt < trace[m].rt
    /\ \A k \in EventsOf("fetch") :
          /\ \A rt \in 1..(trace[k].rt - 1) : \E m \in EventsOf("fetch") : m < k /\ trace[m].rt = rt
          /\ trace[k].rt > 1 => trace[k - 1].ev = "sleep"


====
